---- MODULE Spec2Model ----
(***************************************************************************)
(* State-machine model of emp::sgp_v2::SimpleExecutionStepper              *)
(* (source/SGP-V2/ExecutionStepper.h) together with SimpleMemoryModel      *)
(* (source/SGP-V2/MemoryModel.h).                                          *)
(*                                                                         *)
(* One stepper object (program, modules, default_module_tag, matchbin,     *)
(* is_matchbin_cache_dirty) and one thread's ExecState are modelled.       *)
(* Positions and ids are size_t values; TLC's integers are 32 bits wide,   *)
(* so size_t is modelled at 31 bits: SizeMax stands for (size_t)-1 and     *)
(* SizeDec wraps below zero the way unsigned subtraction does.             *)
(***************************************************************************)
EXTENDS Integers, Sequences, FiniteSets, TLC

\* ------------------------------------------------------------------ bounds
\* Longest program handed to SetProgram.
MaxProgLen == 3
\* Largest n handed to FindModuleMatch.
MaxN == 2
\* Largest module id handed to InitThread.
MaxModuleId == 3

\* (size_t)-1, the value of the literal -1 converted to size_t.
SizeMax == 2147483647

\* ------------------------------------------------------------- value sets
\* Tags are bit strings (TAG_T is emp::BitSet<16> by default), read as
\* numbers; one bit is modelled.  A default-constructed tag_t() is 0.
Tags == 0 .. 1

\* The tag lists an instruction carries: none, one tag, two tags.
TagLists == { <<>>, << 0 >>, << 1, 0 >> }

RECURSIVE SeqsUpTo(_, _)
SeqsUpTo(S, n) ==
  IF n = 0 THEN { <<>> }
  ELSE LET shorter == SeqsUpTo(S, n - 1)
       IN shorter \cup { Append(s, x) : s \in { t \in shorter : Len(t) = n - 1 }, x \in S }

\* An instruction: whether its opcode has the MODULE property in the
\* instruction library, and the tags it carries.  Arguments play no part.
Insts ==
  { [is_module |-> FALSE, tags |-> <<>>] }
    \cup { [is_module |-> TRUE, tags |-> ts] : ts \in TagLists }

Programs == SeqsUpTo(Insts, MaxProgLen)

\* What modules[module_id] past the end of the vector can yield for begin or
\* end.  The read returns whatever the storage holds there: a field of a
\* module of an earlier program, which modules.clear() leaves in place (a
\* position of that program, its size, or (size_t)-1), or any other bytes.
\* Every value above the largest program size is written SizeMax.
GarbageSizes == (0 .. MaxProgLen) \cup { SizeMax }

\* ------------------------------------------------------------------ state
VARIABLES
  emp_assert_on,            \* the build: TRUE when emp_assert is compiled in
  program,                  \* program_t program
  modules,                  \* emp::vector<module_t> modules
  default_module_tag,       \* tag_t default_module_tag
  matchbin,                 \* matchbin_t matchbin: uid -> [val, tag]
  is_matchbin_cache_dirty,  \* bool is_matchbin_cache_dirty
  exec_state,               \* the thread's ExecState
  ret                       \* the last call, its arguments and its outcome

vars == << emp_assert_on, program, modules, default_module_tag, matchbin,
           is_matchbin_cache_dirty, exec_state, ret >>

\* ------------------------------------------------------- size_t arithmetic
\* x - 1 on size_t.
SizeDec(x) == IF x = 0 THEN SizeMax ELSE x - 1

\* ------------------------------------------------------------ data types
\* FlowInfo(_type, _mp, _ip, _begin, _end)
FlowInfo(type, mp, ip, begin, end) ==
  [type |-> type, mp |-> mp, ip |-> ip, begin |-> begin, end |-> end]

\* An empty mem_buffer_t.
EmptyBuffer == <<>>

\* SimpleMemoryModel::CreateMemoryState(working, input, output)
CreateMemoryState(working, input, output) ==
  [working_mem |-> working, input_mem |-> input, output_mem |-> output]

\* CallState(_mem): the memory and an empty flow stack.
CallState(mem) == [memory |-> mem, flow_stack |-> <<>>]

\* Module(_id, _begin, _end, _tag): in_module starts empty.
Module(id, begin, end, tag) ==
  [id |-> id, begin |-> begin, end |-> end, tag |-> tag, in_module |-> {}]

\* inst_lib->HasProperty(inst.GetID(), inst_prop_t::MODULE)
HasProperty(inst) == inst.is_module

\* ------------------------------------------------------------- UpdateModules
\* Positions of the MODULE-defining instructions of prog (0-based).
MarkerPositions(prog) == { pos \in 0 .. Len(prog) - 1 : HasProperty(prog[pos + 1]) }

\* Positions of the MODULE-defining instructions that carry no tag: the ones
\* the emp_assert of line 272 rejects.
UntaggedMarkers(prog) == { pos \in MarkerPositions(prog) : Len(prog[pos + 1].tags) = 0 }

\* ClearModules with a fault: the current modules are kept.
ClearModulesKept(mods) == mods

\* modules.clear();
ClearModules(mods) == <<>>

\* if (modules.size()) { modules.back().end = pos; }
ClosePrevious(mods, pos) ==
  IF Len(mods) > 0 THEN [mods EXCEPT ![Len(mods)].end = pos] ELSE mods

\* ScanStep with a fault: a new module begins at its MODULE instruction.
ScanStepBeginAtMarker(st, pos, prog, g) ==
  LET inst == prog[pos + 1]
  IN IF HasProperty(inst)
     THEN LET closed == ClosePrevious(st.modules, pos)
              tag    == IF Len(inst.tags) > 0 THEN inst.tags[1] ELSE g[pos]
          IN [st EXCEPT !.modules = Append(closed, Module(Len(st.modules), pos, SizeMax, tag))]
     ELSE IF Len(st.modules) > 0
          THEN [st EXCEPT !.modules[Len(st.modules)].in_module = @ \cup {pos}]
          ELSE [st EXCEPT !.dangling = @ \cup {pos}]

\* ScanStep with a fault: a MODULE instruction is a member of its own module.
ScanStepMarkerIsMember(st, pos, prog, g) ==
  LET inst == prog[pos + 1]
  IN IF HasProperty(inst)
     THEN LET closed == ClosePrevious(st.modules, pos)
              mod_id == Len(st.modules)
              begin  == IF pos + 1 < Len(prog) THEN pos + 1 ELSE 0
              tag    == IF Len(inst.tags) > 0 THEN inst.tags[1] ELSE g[pos]
          IN [st EXCEPT !.modules =
                Append(closed, [Module(mod_id, begin, SizeMax, tag) EXCEPT !.in_module = {pos}])]
     ELSE IF Len(st.modules) > 0
          THEN [st EXCEPT !.modules[Len(st.modules)].in_module = @ \cup {pos}]
          ELSE [st EXCEPT !.dangling = @ \cup {pos}]

\* One iteration of the scan loop at position pos.  st holds the modules found
\* so far and the dangling instructions; g[pos] is what inst.GetTags()[0]
\* reads when the instruction carries no tag.
ScanStep(st, pos, prog, g) ==
  LET inst == prog[pos + 1]
  IN IF HasProperty(inst)
     THEN LET closed == ClosePrevious(st.modules, pos)
              mod_id == Len(st.modules)
              begin  == IF pos + 1 < Len(prog) THEN pos + 1 ELSE 0
              tag    == IF Len(inst.tags) > 0 THEN inst.tags[1] ELSE g[pos]
          IN [st EXCEPT !.modules = Append(closed, Module(mod_id, begin, SizeMax, tag))]
     ELSE IF Len(st.modules) > 0
          THEN [st EXCEPT !.modules[Len(st.modules)].in_module = @ \cup {pos}]
          ELSE [st EXCEPT !.dangling = @ \cup {pos}]

\* The scan loop over positions 0 .. upto-1.
RECURSIVE Scan(_, _, _)
Scan(prog, upto, g) ==
  IF upto = 0 THEN [modules |-> <<>>, dangling |-> {}]
  ELSE ScanStep(Scan(prog, upto - 1, g), upto - 1, prog, g)

\* modules.back().end = (modules[0].begin - 1 > 0) ? modules[0].begin - 1
\*                                                 : program.GetSize();
\* The subtraction and the comparison are on size_t.
LastModuleEnd(mods, size) ==
  IF SizeDec(mods[1].begin) > 0 THEN SizeDec(mods[1].begin) ELSE size

\* modules.emplace_back(0, 0, program.GetSize(), default_module_tag);
DefaultModule(size, tag) == Module(0, 0, size, tag)

\* The end point of the last module, or the default module when none was found.
FinishModules(mods, size, tag) ==
  IF Len(mods) > 0
  THEN [mods EXCEPT ![Len(mods)].end = LastModuleEnd(mods, size)]
  ELSE << DefaultModule(size, tag) >>

\* AssignDangling with a fault: the dangling instructions go to the first module.
AssignDanglingToFirst(mods, dangling) ==
  [mods EXCEPT ![1].in_module = @ \cup dangling]

\* for (size_t val : dangling_instructions) modules.back().in_module.emplace(val);
AssignDangling(mods, dangling) ==
  [mods EXCEPT ![Len(mods)].in_module = @ \cup dangling]

\* ResetMatchBin with a fault: every entry is set with the tag of the first module.
ResetMatchBinFirstTag(mods) ==
  [uid \in 0 .. Len(mods) - 1 |-> [val |-> uid, tag |-> mods[1].tag]]

\* matchbin.Clear(), then matchbin.Set(i, modules[i].GetTag(), i) for every i:
\* the matchbin contents ResetMatchBin leaves, as a map uid -> (val, tag).
ResetMatchBin(mods) ==
  [uid \in 0 .. Len(mods) - 1 |-> [val |-> uid, tag |-> mods[uid + 1].tag]]

\* The module table UpdateModules builds for a non-empty program.
CompiledModules(prog, tag, g) ==
  LET st == Scan(prog, Len(prog), g)
  IN AssignDangling(FinishModules(st.modules, Len(prog), tag), st.dangling)

\* The module table at the moment the emp_assert of line 272 stops the scan at
\* position pos: the scan of the positions before it, the previous module closed.
InterruptedModules(prog, pos, g) ==
  ClosePrevious(Scan(prog, pos, g).modules, pos)

\* ------------------------------------------------------------------ calls
\* What the model remembers of the last call: the operation, whether it
\* returned ("ok") or ended the process ("aborted"), its arguments, the result
\* of FindModuleMatch and the dirty flag it found, for InitThread the depth of
\* the call stack the call found and, for SetProgram, whether the call replaced
\* a module table that differs from the one it built.
Ret(op, status) ==
  [op |-> op, status |-> status, tag |-> 0, n |-> 0, module_id |-> 0,
   result |-> <<>>, depth_before |-> 0, dirty_before |-> FALSE,
   replaced |-> FALSE]

InitThreadRet(status, module_id) ==
  [Ret("InitThread", status) EXCEPT !.module_id = module_id,
                                    !.depth_before = Len(exec_state.call_stack)]

Running == ret.status # "aborted"

Init ==
  /\ emp_assert_on \in BOOLEAN
  /\ program = <<>>
  /\ modules = <<>>
  /\ default_module_tag = 0
  /\ matchbin = <<>>
  /\ is_matchbin_cache_dirty = TRUE
  /\ exec_state = [call_stack |-> <<>>]
  /\ ret = Ret("construct", "ok")

\* UpdateModules() on the program prog, with default_module_tag = tag and the
\* tag index (bin, dirty) as the call finds it: the outcomes the call can have,
\* each the module table and tag index it leaves and whether it returned.
\*  - No instructions: the modules are cleared and the call returns before
\*    ResetMatchBin.
\*  - Every MODULE instruction tagged: the scan, the end of the last module or
\*    the default module, the dangling instructions, ResetMatchBin.
\*  - A MODULE instruction without tags: the emp_assert of line 272 ends the
\*    process at the first of them when it is compiled in (asserts); when it
\*    is compiled out, inst.GetTags()[0] reads past the end of an empty
\*    vector at each of them in turn, and each read either faults, ending the
\*    process with the module table as the scan has it there, or yields some
\*    tag g[pos] and the scan goes on.
UpdateModules(prog, tag, bin, dirty, asserts) ==
  LET untagged == UntaggedMarkers(prog)
      first    == CHOOSE x \in untagged : \A y \in untagged : x <= y
      returned == { LET mods == CompiledModules(prog, tag, g)
                    IN [modules |-> mods, matchbin |-> ResetMatchBin(mods),
                        dirty |-> FALSE, status |-> "ok"] :
                    g \in [untagged -> Tags] }
      stopped  == { [modules |-> InterruptedModules(prog, first, [x \in untagged |-> 0]),
                     matchbin |-> bin, dirty |-> dirty, status |-> "aborted"] }
      faulted  == { [modules |-> InterruptedModules(prog, pos, g),
                     matchbin |-> bin, dirty |-> dirty, status |-> "aborted"] :
                    pos \in untagged, g \in [untagged -> Tags] }
  IN IF Len(prog) = 0
     THEN { [modules |-> <<>>, matchbin |-> bin, dirty |-> dirty, status |-> "ok"] }
     ELSE IF untagged = {} THEN returned
     ELSE IF asserts THEN stopped
     ELSE returned \cup faulted

\* SetProgram(_program): program = _program; UpdateModules();
\* The modules UpdateModules emplaces go behind what modules.clear() leaves
\* of the current module table.
SetProgram(p) ==
  /\ Running
  /\ program' = p
  /\ \E out \in UpdateModules(p, default_module_tag, matchbin,
                              is_matchbin_cache_dirty, emp_assert_on) :
       /\ modules' = ClearModules(modules) \o out.modules
       /\ matchbin' = out.matchbin
       /\ is_matchbin_cache_dirty' = out.dirty
       /\ ret' = [Ret("SetProgram", out.status) EXCEPT
                    !.replaced = Len(modules) > 0 /\ modules # out.modules]
  /\ UNCHANGED << emp_assert_on, default_module_tag, exec_state >>

\* UpdateModules() called on its own: the module table and the tag index are
\* built again from the program as it is.
CallUpdateModules ==
  /\ Running
  /\ \E out \in UpdateModules(program, default_module_tag, matchbin,
                              is_matchbin_cache_dirty, emp_assert_on) :
       /\ modules' = ClearModules(modules) \o out.modules
       /\ matchbin' = out.matchbin
       /\ is_matchbin_cache_dirty' = out.dirty
       /\ ret' = Ret("UpdateModules", out.status)
  /\ UNCHANGED << emp_assert_on, program, default_module_tag, exec_state >>

\* ResetMatchBin() called on its own: the tag index is rebuilt from the module
\* table and the dirty flag cleared.
CallResetMatchBin ==
  /\ Running
  /\ matchbin' = ResetMatchBin(modules)
  /\ is_matchbin_cache_dirty' = FALSE
  /\ ret' = Ret("ResetMatchBin", "ok")
  /\ UNCHANGED << emp_assert_on, program, modules, default_module_tag, exec_state >>

\* SetDefaultTag with a fault: the modules are given the new tag as well.
SetDefaultTagRetagging(tag) ==
  /\ Running
  /\ default_module_tag' = tag
  /\ modules' = [i \in 1 .. Len(modules) |-> [modules[i] EXCEPT !.tag = tag]]
  /\ ret' = [Ret("SetDefaultTag", "ok") EXCEPT !.tag = tag]
  /\ UNCHANGED << emp_assert_on, program, matchbin,
                  is_matchbin_cache_dirty, exec_state >>

\* SetDefaultTag(_tag): default_module_tag = _tag;
SetDefaultTag(tag) ==
  /\ Running
  /\ default_module_tag' = tag
  /\ ret' = [Ret("SetDefaultTag", "ok") EXCEPT !.tag = tag]
  /\ UNCHANGED << emp_assert_on, program, modules, matchbin,
                  is_matchbin_cache_dirty, exec_state >>

\* ------------------------------------------------------------- InitThread
\* ClearCallStack with a fault: the earlier call frames are kept.
ClearCallStackKept(call_stack) == call_stack

\* ExecState::Clear() called on the thread's ExecState: call_stack.clear();
Clear ==
  /\ Running
  /\ exec_state' = [call_stack |-> <<>>]
  /\ ret' = Ret("Clear", "ok")
  /\ UNCHANGED << emp_assert_on, program, modules, default_module_tag, matchbin,
                  is_matchbin_cache_dirty >>

\* if (state.call_stack.size()) { state.Clear(); }
ClearCallStack(call_stack) ==
  IF Len(call_stack) > 0 THEN <<>> ELSE call_stack

\* state.call_stack.emplace_back(memory_model.CreateMemoryState());
PushCallState(call_stack) ==
  Append(call_stack, CallState(CreateMemoryState(EmptyBuffer, EmptyBuffer, EmptyBuffer)))

\* call_state.flow_stack.emplace_back(FlowType::CALL, module_info.begin,
\*                                    module_id, module_info.begin, module_info.end);
\* on the CallState at the back of the call stack.  The arguments bind to the
\* parameters of FlowInfo in the order they are written.
PushCallFlow(call_stack, module_id, begin, end) ==
  [call_stack EXCEPT ![Len(call_stack)].flow_stack =
     Append(@, FlowInfo("CALL", begin, module_id, begin, end))]

\* InitThread(thread, module_id) with module_id < modules.size().
InitThreadValid(module_id) ==
  /\ Running
  /\ module_id < Len(modules)
  /\ LET module_info == modules[module_id + 1]
     IN exec_state' =
          [call_stack |-> PushCallFlow(PushCallState(ClearCallStack(exec_state.call_stack)),
                                       module_id, module_info.begin, module_info.end)]
  /\ ret' = InitThreadRet("ok", module_id)
  /\ UNCHANGED << emp_assert_on, program, modules, default_module_tag, matchbin,
                  is_matchbin_cache_dirty >>

\* InitThread with module_id >= modules.size() where emp_assert is compiled
\* in: the assert of line 217 ends the process before anything is touched.
InitThreadAsserted(module_id) ==
  /\ Running
  /\ emp_assert_on
  /\ module_id >= Len(modules)
  /\ ret' = InitThreadRet("aborted", module_id)
  /\ UNCHANGED << emp_assert_on, program, modules, default_module_tag, matchbin,
                  is_matchbin_cache_dirty, exec_state >>

\* InitThread with module_id >= modules.size() where emp_assert is compiled
\* out: the call stack is cleared and a CallState pushed, then
\* modules[module_id] reads past the end of the vector.  The read either
\* faults or yields the begin and end found in the storage behind the
\* vector, any two values of GarbageSizes.
InitThreadUnchecked(module_id) ==
  /\ Running
  /\ ~emp_assert_on
  /\ module_id >= Len(modules)
  /\ LET pushed == PushCallState(ClearCallStack(exec_state.call_stack))
     IN \/ /\ exec_state' = [call_stack |-> pushed]
           /\ ret' = InitThreadRet("aborted", module_id)
        \/ \E begin \in GarbageSizes, end \in GarbageSizes :
             /\ exec_state' = [call_stack |-> PushCallFlow(pushed, module_id, begin, end)]
             /\ ret' = InitThreadRet("ok", module_id)
  /\ UNCHANGED << emp_assert_on, program, modules, default_module_tag, matchbin,
                  is_matchbin_cache_dirty >>

InitThread(module_id) ==
  \/ InitThreadValid(module_id)
  \/ InitThreadAsserted(module_id)
  \/ InitThreadUnchecked(module_id)

\* -------------------------------------------------------- FindModuleMatch
\* emp::HammingMetric: the number of bit positions in which two tags differ.
RECURSIVE HammingDistance(_, _)
HammingDistance(a, b) ==
  IF a = 0 /\ b = 0 THEN 0
  ELSE (IF a % 2 # b % 2 THEN 1 ELSE 0) + HammingDistance(a \div 2, b \div 2)

\* matchbin.Match(tag, n): the values of the n entries closest to tag (all of
\* them when there are fewer), closest first; the order among equally close
\* entries is the matcher's choice.
Match(bin, tag, n) ==
  LET uids == DOMAIN bin
      k    == IF n < Cardinality(uids) THEN n ELSE Cardinality(uids)
      d(u) == HammingDistance(bin[u].tag, tag)
      picks == { s \in [1 .. k -> uids] :
                   /\ \A i, j \in 1 .. k : i < j => s[i] # s[j] /\ d(s[i]) <= d(s[j])
                   /\ \A u \in uids : (\A i \in 1 .. k : s[i] # u) =>
                                        \A i \in 1 .. k : d(s[i]) <= d(u) }
  IN { [i \in 1 .. k |-> bin[s[i]].val] : s \in picks }

\* The matchbin a query is answered from: rebuilt when the cache is dirty.
QueriedMatchBin ==
  IF is_matchbin_cache_dirty THEN ResetMatchBin(modules) ELSE matchbin

\* FindModuleMatch(tag, n)
FindModuleMatch(tag, n) ==
  /\ Running
  /\ matchbin' = QueriedMatchBin
  /\ is_matchbin_cache_dirty' = FALSE
  /\ \E r \in Match(QueriedMatchBin, tag, n) :
       ret' = [Ret("FindModuleMatch", "ok") EXCEPT !.tag = tag, !.n = n, !.result = r,
                                                   !.dirty_before = is_matchbin_cache_dirty]
  /\ UNCHANGED << emp_assert_on, program, modules, default_module_tag, exec_state >>

\* The modules a caller can construct: Module(_id, _begin, _end, _tag) with
\* any arguments, and any in_module.
WrittenModules ==
  [id : 0 .. MaxModuleId, begin : GarbageSizes, end : GarbageSizes, tag : Tags,
   in_module : SUBSET (0 .. MaxProgLen - 1)]

\* Module tables for a caller to write: those UpdateModules builds for the
\* programs of one or two instructions whose MODULE instructions carry a tag,
\* and those of up to two modules Module(id, 0, 0, tag), whose ids need not
\* be their places in the table.
WrittenTables ==
  { CompiledModules(p, 0, <<>>) :
      p \in { q \in Programs : Len(q) \in 1 .. 2 /\ UntaggedMarkers(q) = {} } }
    \cup SeqsUpTo({ Module(id, 0, 0, tag) : id \in 0 .. 1, tag \in Tags }, 2)

\* What one write through the reference GetModules() returns can leave of the
\* table mods: clear(), pop_back(), push_back(m), an assignment to the
\* module at some place, or the assignment of a whole table.
ModuleWrites(mods) ==
  { <<>> }
    \cup { SubSeq(mods, 1, Len(mods) - 1) }
    \cup { Append(mods, m) : m \in { w \in WrittenModules : Len(mods) < MaxProgLen } }
    \cup { [mods EXCEPT ![i] = m] : i \in 1 .. Len(mods), m \in WrittenModules }
    \cup WrittenTables

\* GetModules() returns the module table by reference: a caller leaves the
\* table mods through it.  Neither the tag index nor the dirty flag is touched.
GetModules(mods) ==
  /\ Running
  /\ modules' = mods
  /\ ret' = Ret("GetModules", "ok")
  /\ UNCHANGED << emp_assert_on, program, default_module_tag, matchbin,
                  is_matchbin_cache_dirty, exec_state >>

\* GetProgram() returns the program by reference: a caller leaves the program
\* p through it.  UpdateModules() is not run.
GetProgram(p) ==
  /\ Running
  /\ program' = p
  /\ ret' = Ret("GetProgram", "ok")
  /\ UNCHANGED << emp_assert_on, modules, default_module_tag, matchbin,
                  is_matchbin_cache_dirty, exec_state >>

\* SingleExecutionStep(hardware, exec_state): writes a line to std::cout.
SingleExecutionStep ==
  /\ Running
  /\ ret' = Ret("SingleExecutionStep", "ok")
  /\ UNCHANGED << emp_assert_on, program, modules, default_module_tag, matchbin,
                  is_matchbin_cache_dirty, exec_state >>

\* --------------------------------------------------------- specifications
\* Loading programs: the program, the default tag and the module table.
Next ==
  \/ \E p \in Programs : SetProgram(p)
  \/ \E tag \in Tags : SetDefaultTag(tag)

Spec == Init /\ [][Next]_vars

\* The programs whose MODULE instructions all carry a tag.
TaggedPrograms == { p \in Programs : UntaggedMarkers(p) = {} }

\* Loading programs and resolving tags: the module table and the tag index.
NextMatch ==
  \/ \E p \in TaggedPrograms : SetProgram(p)
  \/ \E tag \in Tags, n \in 0 .. MaxN : FindModuleMatch(tag, n)
  \/ CallResetMatchBin

SpecMatch == Init /\ [][NextMatch]_vars

\* The programs whose MODULE instructions all carry the one tag 0: every
\* arrangement of module boundaries.  InitThread reads begin and end of a
\* module and never a tag.
BoundaryPrograms ==
  { p \in Programs : \A i \in 1 .. Len(p) : p[i].is_module => p[i].tags = << 0 >> }

\* A thread's ExecState against the module table.
NextThread ==
  \/ \E p \in BoundaryPrograms : SetProgram(p)
  \/ \E module_id \in 0 .. MaxModuleId : InitThread(module_id)
  \/ SingleExecutionStep
  \/ Clear

SpecThread == Init /\ [][NextThread]_vars

\* Loading programs, changing the default tag and resolving tags.
NextDefaultTag ==
  \/ \E p \in TaggedPrograms : SetProgram(p)
  \/ \E tag \in Tags : SetDefaultTag(tag)
  \/ \E tag \in Tags, n \in 0 .. MaxN : FindModuleMatch(tag, n)

SpecDefaultTag == Init /\ [][NextDefaultTag]_vars

\* Resolving tags against module tables written through GetModules().
NextRebuild ==
  \/ \E mods \in WrittenTables : GetModules(mods)
  \/ \E tag \in Tags, n \in 0 .. MaxN : FindModuleMatch(tag, n)

SpecRebuild == Init /\ [][NextRebuild]_vars

\* Every call on every input.
NextAll ==
  \/ Next
  \/ NextMatch
  \/ NextThread
  \/ NextRebuild
  \/ CallUpdateModules
  \/ \E mods \in ModuleWrites(modules) : GetModules(mods)
  \/ \E p \in Programs : GetProgram(p)

SpecAll == Init /\ [][NextAll]_vars
\* ------------------------------------------------------------ properties
\* The flow frame on top of the thread's innermost call frame.
TopFlow ==
  LET call_state == exec_state.call_stack[Len(exec_state.call_stack)]
  IN call_state.flow_stack[Len(call_state.flow_stack)]

\* InitThread has just returned for a module id inside the module table.
InitThreadReturned ==
  /\ ret.op = "InitThread"
  /\ ret.status = "ok"
  /\ ret.module_id < Len(modules)

\* SetProgram has just returned.
SetProgramReturned == ret.op = "SetProgram" /\ ret.status = "ok"

\* SetProgram has just returned, and every MODULE instruction of the program
\* carries a tag, as the emp_assert of line 272 demands.
ProgramCompiled == SetProgramReturned /\ UntaggedMarkers(program) = {}

\* C1: after InitThread(thread, m) with a valid m the thread's flow frame has
\* module pointer m, instruction pointer = begin = modules[m].begin and
\* end = modules[m].end.
C1_FlowFrameOfModule ==
  InitThreadReturned =>
    LET module_info == modules[ret.module_id + 1]
    IN /\ TopFlow.mp = ret.module_id
       /\ TopFlow.ip = module_info.begin
       /\ TopFlow.begin = module_info.begin
       /\ TopFlow.end = module_info.end

\* C2: after InitThread with a valid module id, whatever the thread held
\* before, the ExecState has exactly one call frame, holding exactly one flow
\* frame of type CALL and a memory whose three buffers are empty.
C2_OneFreshCallFrame ==
  InitThreadReturned =>
    /\ Len(exec_state.call_stack) = 1
    /\ Len(exec_state.call_stack[1].flow_stack) = 1
    /\ exec_state.call_stack[1].flow_stack[1].type = "CALL"
    /\ exec_state.call_stack[1].memory.working_mem = EmptyBuffer
    /\ exec_state.call_stack[1].memory.input_mem = EmptyBuffer
    /\ exec_state.call_stack[1].memory.output_mem = EmptyBuffer

\* C2 witness: InitThread returned for a valid id on a thread that already
\* held a call frame.
C2_Witness == InitThreadReturned /\ ret.depth_before > 0

\* C3: an InitThread call with a module id outside the module table fails and
\* leaves the thread's ExecState as it was.
C3_InvalidIdLeavesState ==
  [][ (ret'.op = "InitThread" /\ ret'.module_id >= Len(modules'))
        => (ret'.status = "aborted" /\ exec_state' = exec_state) ]_vars
\* The position of the first MODULE instruction of the loaded program.
FirstMarker ==
  CHOOSE pos \in MarkerPositions(program) : \A q \in MarkerPositions(program) : pos <= q

\* C4: after SetProgram on a program without MODULE instructions,
\* the empty program included, the module table is exactly one module with
\* id 0, begin 0, end = the program's size and the configured default tag.
C4_DefaultModuleAlways ==
  (SetProgramReturned /\ MarkerPositions(program) = {}) =>
    /\ Len(modules) = 1
    /\ modules[1].id = 0
    /\ modules[1].begin = 0
    /\ modules[1].end = Len(program)
    /\ modules[1].tag = default_module_tag

\* C5: after SetProgram on a program with a MODULE instruction the last
\* module's end is first_module.begin - 1 when that is positive and the
\* program's size otherwise, and no module's end exceeds the program's size.
C5_LastModuleEnd ==
  (ProgramCompiled /\ MarkerPositions(program) # {}) =>
    /\ modules[Len(modules)].end =
         IF modules[1].begin - 1 > 0 THEN modules[1].begin - 1 ELSE Len(program)
    /\ \A i \in 1 .. Len(modules) : modules[i].end <= Len(program)

\* The positions of a module's body [begin, end), read circularly when the
\* end lies before the begin.
InBody(module, pos) ==
  IF module.begin <= module.end
  THEN module.begin <= pos /\ pos < module.end
  ELSE module.begin <= pos \/ pos < module.end

\* The modules that claim a position, by member set or by body.
Claimants(pos) ==
  { i \in 1 .. Len(modules) : pos \in modules[i].in_module \/ InBody(modules[i], pos) }

\* C6: after SetProgram every instruction index of the program is claimed, by
\* member set or by [begin, end) body, by exactly one module.
C6_DisjointCover ==
  ProgramCompiled =>
    \A pos \in 0 .. Len(program) - 1 : Cardinality(Claimants(pos)) = 1

\* C7: FindModuleMatch answers from an index holding exactly one entry
\* (id, tag) per module of the module table the latest SetProgram produced,
\* and nothing else.
C7_IndexReflectsModules ==
  ret.op = "FindModuleMatch" =>
    /\ DOMAIN matchbin = 0 .. Len(modules) - 1
    /\ \A uid \in DOMAIN matchbin :
         /\ matchbin[uid].val = modules[uid + 1].id
         /\ matchbin[uid].tag = modules[uid + 1].tag

\* C8: with an empty module table FindModuleMatch returns the empty sequence,
\* for every tag and every n.
C8_NoModulesNoMatch ==
  (ret.op = "FindModuleMatch" /\ Len(modules) = 0) =>
    (ret.status = "ok" /\ ret.result = <<>>)

\* The modules whose tag is the tag of the last query.
ModulesTagged == { i \in 1 .. Len(modules) : modules[i].tag = ret.tag }

\* C9 as stated: FindModuleMatch(modules[i].tag, 1) returns the id of
\* module i as its only result, for every module i.
C9_ExactTagFindsModule ==
  (ret.op = "FindModuleMatch" /\ ret.n = 1) =>
    \A i \in ModulesTagged : ret.result = << modules[i].id >>

\* C9 amended: FindModuleMatch(modules[i].tag, 1) returns as its only result
\* the id of a module whose tag equals modules[i].tag; that is module i when
\* no other module carries the same tag.
C9_ExactTagFindsSameTag ==
  (ret.op = "FindModuleMatch" /\ ret.n = 1 /\ ModulesTagged # {}) =>
    \E i \in ModulesTagged : ret.result = << modules[i].id >>

\* C9 witness: a query with the tag of just one of several modules.
C9_Witness ==
  /\ ret.op = "FindModuleMatch"
  /\ ret.n = 1
  /\ Len(modules) > 1
  /\ Cardinality(ModulesTagged) = 1

\* C10: when the first MODULE instruction is at a position p > 0, every
\* position 0 .. p-1 is in the member set of the last module and of no other.
C10_DanglingInLastModule ==
  (SetProgramReturned /\ MarkerPositions(program) # {}) =>
    \A pos \in 0 .. FirstMarker - 1 :
      \A i \in 1 .. Len(modules) :
        (pos \in modules[i].in_module) <=> (i = Len(modules))

\* C10 witness: a program with dangling instructions and several modules.
C10_Witness ==
  /\ SetProgramReturned
  /\ MarkerPositions(program) # {}
  /\ FirstMarker > 0
  /\ Len(modules) > 1
\* The thread holds a call frame with a flow frame: it is Running.
ThreadRunning ==
  /\ Len(exec_state.call_stack) > 0
  /\ Len(exec_state.call_stack[Len(exec_state.call_stack)].flow_stack) > 0

\* C11: SingleExecutionStep on an ExecState with an empty call stack hands a
\* halted signal back to the caller and leaves the ExecState, the module table
\* and the tag index as they were.
C11_IdleStepSignalsHalted ==
  [][ (ret'.op = "SingleExecutionStep" /\ Len(exec_state.call_stack) = 0)
        => /\ ret'.status = "halted"
           /\ UNCHANGED << exec_state, modules, matchbin, is_matchbin_cache_dirty >> ]_vars

\* C12: SingleExecutionStep on a running thread whose top flow frame has its
\* instruction pointer away from its end moves that instruction pointer
\* forward by exactly one; stated for the step that follows an InitThread
\* with a valid module id.
C12_StepAdvancesInstructionPointer ==
  [][ (/\ ret'.op = "SingleExecutionStep"
       /\ InitThreadReturned
       /\ ThreadRunning
       /\ TopFlow.ip # TopFlow.end)
        => TopFlow'.ip = TopFlow.ip + 1 ]_vars

\* C13: SetProgram on a program with a MODULE instruction that carries no tag
\* fails; it does not return with a module table.
C13_UntaggedMarkerFails ==
  (ret.op = "SetProgram" /\ UntaggedMarkers(program) # {}) => ret.status = "aborted"

\* C14: in a compiled program with two or more modules every module's end is
\* the begin of the module after it, and the last module's end is the begin of
\* the first module.
C14_EndIsSuccessorBegin ==
  (ProgramCompiled /\ Len(modules) >= 2) =>
    /\ \A i \in 1 .. Len(modules) - 1 : modules[i].end = modules[i + 1].begin
    /\ modules[Len(modules)].end = modules[1].begin
\* The position of the j-th MODULE instruction of prog, counting from 0.
NthMarker(prog, j) ==
  CHOOSE pos \in MarkerPositions(prog) :
    Cardinality({ q \in MarkerPositions(prog) : q < pos }) = j

\* What C15 says of the module table mods of the program prog, which has
\* MODULE instructions: one module per MODULE instruction, module j with id j,
\* the first tag of the j-th MODULE instruction, begin just after it (0 when it
\* is the last instruction) and, unless it is the last module, end at the
\* next MODULE instruction.
ModulePerMarker(prog, mods) ==
  /\ Len(mods) = Cardinality(MarkerPositions(prog))
  /\ \A j \in 0 .. Len(mods) - 1 :
       LET pos == NthMarker(prog, j)
       IN /\ mods[j + 1].id = j
          /\ mods[j + 1].tag = prog[pos + 1].tags[1]
          /\ mods[j + 1].begin = (IF pos = Len(prog) - 1 THEN 0 ELSE pos + 1)
          /\ j < Len(mods) - 1 => mods[j + 1].end = NthMarker(prog, j + 1)

\* The program of C15's example: 8 instructions, MODULE instructions at
\* positions 2 and 5.
MarkersAtTwoAndFive ==
  [i \in 1 .. 8 |-> IF i \in {3, 6} THEN [is_module |-> TRUE, tags |-> << 0 >>]
                                    ELSE [is_module |-> FALSE, tags |-> <<>>]]

\* C15: after SetProgram on a program with k >= 1 tagged MODULE instructions
\* the module table is one module per MODULE instruction as ModulePerMarker
\* says; and MODULE instructions at 2 and 5 of 8 instructions give module 0
\* from 3 to 5 and module 1 with begin 6 and end 2.
C15_ModulePerMarker ==
  /\ (ProgramCompiled /\ MarkerPositions(program) # {}) =>
       ModulePerMarker(program, modules)
  /\ LET mods == CompiledModules(MarkersAtTwoAndFive, 0, <<>>)
     IN /\ ModulePerMarker(MarkersAtTwoAndFive, mods)
        /\ << mods[1].begin, mods[1].end >> = << 3, 5 >>
        /\ << mods[2].begin, mods[2].end >> = << 6, 2 >>

\* C15 witness: a loaded program with several MODULE instructions, one of them
\* with two tags and one of them the last instruction.
C15_Witness ==
  /\ ProgramCompiled
  /\ Cardinality(MarkerPositions(program)) >= 2
  /\ Len(program) - 1 \in MarkerPositions(program)
  /\ \E pos \in MarkerPositions(program) : Len(program[pos + 1].tags) = 2
\* The tag index bin holds exactly one entry (id, tag) per module of mods.
IndexReflects(bin, mods) ==
  /\ DOMAIN bin = 0 .. Len(mods) - 1
  /\ \A uid \in DOMAIN bin :
       bin[uid].val = mods[uid + 1].id /\ bin[uid].tag = mods[uid + 1].tag

\* C16: every SetProgram call returns with the tag index marked dirty, so
\* that the next FindModuleMatch call rebuilds it.
C16_SetProgramLeavesDirty ==
  SetProgramReturned => is_matchbin_cache_dirty

ExpectedModules(p, tag) ==
  LET len       == Len(p)
      k         == Cardinality(MarkerPositions(p))
      marker(j) == NthMarker(p, j)
      begin(j)  == IF marker(j) + 1 < len THEN marker(j) + 1 ELSE 0
      wrap      == IF begin(0) = 0 THEN SizeMax
                   ELSE IF begin(0) = 1 THEN len ELSE begin(0) - 1
  IN IF len = 0 THEN <<>>
     ELSE IF k = 0
     THEN << [id |-> 0, begin |-> 0, end |-> len, tag |-> tag,
              in_module |-> 0 .. len - 1] >>
     ELSE [j \in 1 .. k |->
             [id    |-> j - 1,
              begin |-> begin(j - 1),
              end   |-> IF j < k THEN marker(j) ELSE wrap,
              tag   |-> p[marker(j - 1) + 1].tags[1],
              in_module |->
                { q \in 0 .. len - 1 :
                    \/ marker(j - 1) < q /\ (j < k => q < marker(j))
                    \/ j = k /\ q < marker(0) }]]

\* C18: the module table SetProgram leaves is a function of the program and
\* the default tag alone, whatever module table the call found.
C18_TableFromProgramAlone ==
  ProgramCompiled => modules = ExpectedModules(program, default_module_tag)

\* C18 witness: SetProgram returned having replaced a different, non-empty
\* module table, and the table it left has several modules.
C18_Witness ==
  /\ ProgramCompiled
  /\ ret.replaced
  /\ Len(modules) >= 2
  /\ modules = ExpectedModules(program, default_module_tag)
\* C19: after SetProgram on a program with instructions, every position that
\* holds no MODULE instruction is a member of exactly one module, no position
\* that holds one is a member of any module, and no module has a member
\* outside the program.
C19_MembersPartition ==
  (SetProgramReturned /\ Len(program) > 0) =>
    /\ \A q \in 0 .. Len(program) - 1 :
         IF q \in MarkerPositions(program)
         THEN \A i \in 1 .. Len(modules) : q \notin modules[i].in_module
         ELSE Cardinality({ i \in 1 .. Len(modules) : q \in modules[i].in_module }) = 1
    /\ \A i \in 1 .. Len(modules) : modules[i].in_module \subseteq 0 .. Len(program) - 1

\* C19 witness: SetProgram returned with several modules, one without members
\* and one with members, over a program that has MODULE instructions.
C19_Witness ==
  /\ SetProgramReturned
  /\ Len(modules) >= 2
  /\ MarkerPositions(program) # {}
  /\ \E i \in 1 .. Len(modules) : modules[i].in_module = {}
  /\ \E i \in 1 .. Len(modules) : modules[i].in_module # {}
\* The module table holds the default module of a program without MODULE
\* instructions.
DefaultModuleLoaded ==
  /\ Len(program) > 0
  /\ MarkerPositions(program) = {}
  /\ Len(modules) = 1

\* C20: a SetDefaultTag call changes default_module_tag and leaves the
\* program, the module table, the contents of the tag index and the dirty
\* flag alone; a FindModuleMatch call over a default module answers from the
\* tag that module was given, whatever default_module_tag is by then.
C20_SetDefaultTagOnly ==
  [][ /\ ret'.op = "SetDefaultTag"
           => /\ default_module_tag' = ret'.tag
              /\ UNCHANGED << program, modules, matchbin, is_matchbin_cache_dirty >>
      /\ (ret'.op = "FindModuleMatch" /\ DefaultModuleLoaded)
           => /\ matchbin'[0].tag = modules[1].tag
              /\ ret'.result \in Match(ResetMatchBin(modules), ret'.tag, ret'.n) ]_vars

\* C20 witness: FindModuleMatch found the default module, whose tag and index
\* entry are the default tag of the SetProgram call and no longer the
\* configured one.
C20_Witness ==
  /\ ret.op = "FindModuleMatch"
  /\ DefaultModuleLoaded
  /\ modules[1].tag # default_module_tag
  /\ matchbin[0].tag = modules[1].tag
  /\ ret.result = << 0 >>

====
